---- MODULE Spec2Model ----
(***************************************************************************)
(* A model of reelscore-go: the library services (MovieService and the     *)
(* textually identical SerieService) with their HTTP handlers, and the     *)
(* Redis sliding-window rate limiter with the route wiring around it.      *)
(*                                                                         *)
(* Numbers with one decimal (numeric(3,1)) are integers in hundredths:     *)
(* 870 is 8.7, 75 is 0.75.  Text is a sequence of one-character strings.   *)
(* An optional value (a Go pointer) is <<>> for nil and <<v>> for &v.      *)
(***************************************************************************)
EXTENDS Integers, Sequences, FiniteSets, TLC

VARIABLES
    Movie,      \* the rows of table "Movie" (table "Serie" has the same shape)
    nextId,     \* the next value gen_random_uuid() hands out
    dbNow,      \* Postgres NOW()
    listReq,    \* the List call between its COUNT statement and its SELECT
    last,       \* the response the observed client of the library is reading
    isProduction, \* cfg.IsProduction(), as given to NewRateLimiter
    clock,      \* time.Now().Unix(), also the key-value store's clock
    zset,       \* the key-value store's sorted sets: key -> scores of its members
    expireAt,   \* the key-value store's expiry time of each key (NoTTL: none)
    session,    \* the session store: token -> user ID and expiry time of its key
    User,       \* the rows of table "User"
    req,        \* the API requests in flight: process -> its position and locals
    hist,       \* the API requests answered, in the order of their answers
    ttl,        \* SessionStore.ttl in seconds, as given to NewSessionStore
    call,       \* the calls of the session store and of the auth middleware in
                \* flight: process -> its position and locals
    seen,       \* what the callers of the session store know of each token: the
                \* user ID last Set and the time of the last call that succeeded
    answer      \* the last answer of the auth middleware

libVars == <<Movie, nextId, dbNow, listReq, last>>

apiVars == <<isProduction, clock, zset, expireAt, session, User, req, hist>>

authVars == <<ttl, call, seen, answer>>

vars == <<Movie, nextId, dbNow, listReq, last,
          isProduction, clock, zset, expireAt, session, User, req, hist,
          ttl, call, seen, answer>>

-----------------------------------------------------------------------------
(* Bounds of the model *)

\* rows ever inserted
MaxRows == 2
\* the largest value of NOW()
MaxDbNow == 1
\* API requests answered
MaxCalls == 3
\* the largest value of time.Now().Unix()
MaxClock == 3
\* a short SessionStore.ttl, in seconds
SessionTTL == 2
\* the items of the largest watchlist that is paged through
MaxWatchlist == 28

-----------------------------------------------------------------------------
(* Values *)

Nil == <<>>

Some(v) == <<v>>

Users == {"u1", "u2"}

\* the request's context carries no user ID
NoUser == "anonymous"

\* a path value uuid.Parse rejects
BadID == 0

Ids == 1..MaxRows

\* what a client sends for a catalog title: tmdbId, title, tmdbScore
Catalog ==
    { [tmdbId |-> 603, title |-> <<"a", "B">>, tmdbScore |-> 870],
      [tmdbId |-> 604, title |-> <<"b", "a">>, tmdbScore |-> 725] }

\* user ratings a client sends (0.75)
ScoreInputs == {75}

\* search texts a client sends
Queries ==
    { <<>>, <<"A">>, <<"a", "b">>, <<"_", "a">>, <<"%">>, <<"\\", "b">> }

Pages == {0, 1, 2}

Limits == {0, 1, 2, 101}

-----------------------------------------------------------------------------
(* Errors: a Go error is the sentinel or driver error at the bottom of the  *)
(* chain and the fmt.Errorf("...: %w") prefix around it, if any.            *)

NoErr == [wrap |-> "", cause |-> ""]

ErrNoRows == [wrap |-> "", cause |-> "no rows in result set"]

PgUniqueViolation ==
    [wrap |-> "",
     cause |-> "ERROR: duplicate key value violates unique constraint \"Movie_tmdbId_userId_unique\" (SQLSTATE 23505)"]

Wrap(prefix, e) == [wrap |-> prefix, cause |-> e.cause]

\* err.Error(): the text of the chain
ErrorString(e) == IF e.wrap = "" THEN e.cause ELSE e.wrap \o ": " \o e.cause

\* errors.Is(err, pgx.ErrNoRows)
IsNoRows(e) == e.cause = ErrNoRows.cause

-----------------------------------------------------------------------------
(* The relational store *)

\* a float64 stored in a numeric(3,1) column: rounded to one decimal
Numeric31(x) == ((x + 5) \div 10) * 10

Lower(c) == IF c = "A" THEN "a" ELSE IF c = "B" THEN "b" ELSE c

\* Postgres: string s matches LIKE pattern p, letters compared without case
RECURSIVE MatchLike(_, _)
MatchLike(p, s) ==
    IF p = <<>> THEN s = <<>>
    ELSE IF p[1] = "%"
         THEN MatchLike(Tail(p), s) \/ (s # <<>> /\ MatchLike(p, Tail(s)))
    ELSE IF p[1] = "_"
         THEN s # <<>> /\ MatchLike(Tail(p), Tail(s))
    ELSE IF p[1] = "\\" /\ Len(p) > 1
         THEN /\ s # <<>>
              /\ Lower(p[2]) = Lower(s[1])
              /\ MatchLike(Tail(Tail(p)), Tail(s))
    ELSE /\ s # <<>>
         /\ Lower(p[1]) = Lower(s[1])
         /\ MatchLike(Tail(p), Tail(s))

\* title ILIKE '%' || query || '%'
ILike(title, query) == MatchLike(<<"%">> \o query \o <<"%">>, title)

\* the table without its unique constraint
NoUniqueConstraint(table, row) == TRUE

\* CONSTRAINT "Movie_tmdbId_userId_unique" UNIQUE("tmdbId", "userId")
Movie_tmdbId_userId_unique(table, row) ==
    \A r \in table : ~(r.tmdbId = row.tmdbId /\ r.userId = row.userId)

-----------------------------------------------------------------------------
(* MovieService.  SerieService is the same code over table "Serie". *)

SvcResult(err, rows, table) == [err |-> err, rows |-> rows, table |-> table]

DigitValue ==
    [c \in {"0", "1", "2", "3", "4", "5", "6", "7", "8", "9"} |->
        CASE c = "0" -> 0 [] c = "1" -> 1 [] c = "2" -> 2 [] c = "3" -> 3
          [] c = "4" -> 4 [] c = "5" -> 5 [] c = "6" -> 6 [] c = "7" -> 7
          [] c = "8" -> 8 [] c = "9" -> 9]

IsDigit(c) == c \in DOMAIN DigitValue

\* the number a run of digits stands for
RECURSIVE Atoi(_)
Atoi(s) == IF s = <<>> THEN 0
           ELSE 10 * Atoi(SubSeq(s, 1, Len(s) - 1)) + DigitValue[s[Len(s)]]

IsLeap(year) == year % 4 = 0 /\ (year % 100 # 0 \/ year % 400 = 0)

\* time.daysIn
DaysIn(month, year) ==
    IF month = 2 THEN (IF IsLeap(year) THEN 29 ELSE 28)
    ELSE IF month \in {4, 6, 9, 11} THEN 30
    ELSE 31

\* the parse that takes any character for the separators
ParseDateAnySeparator(s) ==
    IF Len(s) # 10 THEN Nil
    ELSE IF \E i \in {1, 2, 3, 4, 6, 7, 9, 10} : ~IsDigit(s[i]) THEN Nil
    ELSE LET year == Atoi(SubSeq(s, 1, 4))
             month == Atoi(SubSeq(s, 6, 7))
             day == Atoi(SubSeq(s, 9, 10))
         IN  IF month < 1 \/ month > 12 THEN Nil
             ELSE IF day < 1 \/ day > DaysIn(month, year) THEN Nil
             ELSE Some([year |-> year, month |-> month, day |-> day])

\* time.Parse("2006-01-02", s): four digits, "-", two digits, "-", two
\* digits and nothing after them, naming a day that exists; Nil for an error
ParseDate(s) ==
    IF Len(s) # 10 THEN Nil
    ELSE IF \E i \in {1, 2, 3, 4, 6, 7, 9, 10} : ~IsDigit(s[i]) THEN Nil
    ELSE IF s[5] # "-" \/ s[8] # "-" THEN Nil
    ELSE LET year == Atoi(SubSeq(s, 1, 4))
             month == Atoi(SubSeq(s, 6, 7))
             day == Atoi(SubSeq(s, 9, 10))
         IN  IF month < 1 \/ month > 12 THEN Nil
             ELSE IF day < 1 \/ day > DaysIn(month, year) THEN Nil
             ELSE Some([year |-> year, month |-> month, day |-> day])

\* the releaseDate Create binds: nil unless the input has a text that parses
CreateReleaseDate(input) ==
    IF input.releaseDate # Nil /\ input.releaseDate[1] # <<>>
    THEN ParseDate(input.releaseDate[1])
    ELSE Nil

\* INSERT INTO "Movie" (...) VALUES (...) RETURNING ...
SvcCreate(table, id, now, userID, input) ==
    LET score == IF input.score # Nil THEN input.score[1] ELSE 0
        row == [id |-> id,
                tmdbId |-> input.tmdbId,
                createdAt |-> now,
                updatedAt |-> now,
                title |-> input.title,
                releaseDate |-> CreateReleaseDate(input),
                tmdbScore |-> Numeric31(input.tmdbScore),
                score |-> Numeric31(score),
                watched |-> input.watched,
                userId |-> userID]
    IN  IF Movie_tmdbId_userId_unique(table, row)
        THEN SvcResult(NoErr, <<row>>, table \cup {row})
        ELSE SvcResult(Wrap("failed to create movie", PgUniqueViolation), <<>>, table)

\* WHERE id = $1 AND "userId" = $2 of Get
GetWhere(r, id, userID) == r.id = id /\ r.userId = userID

\* SELECT ... FROM "Movie" WHERE id = $1 AND "userId" = $2
SvcGet(table, id, userID) ==
    LET hit == {r \in table : GetWhere(r, id, userID)}
    IN  IF hit = {}
        THEN SvcResult(ErrNoRows, <<>>, table)
        ELSE SvcResult(NoErr, <<CHOOSE r \in hit : TRUE>>, table)

\* the update keyed by id alone
UpdateWhereIdOnly(r, id, userID) == r.id = id

\* WHERE id = $n AND "userId" = $n+1 of Update
UpdateWhere(r, id, userID) == r.id = id /\ r.userId = userID

\* the update that writes every column, an absent score as 0
UpdateSetAll(r, input, now) ==
    [r EXCEPT !.updatedAt = now,
              !.score = IF input.score # Nil THEN Numeric31(input.score[1]) ELSE 0,
              !.watched = IF input.watched # Nil THEN input.watched[1] ELSE @]

\* the update that writes the watched flag of the body, an absent one as false
UpdateSetWatchedDefault(r, input, now) ==
    [r EXCEPT !.updatedAt = now,
              !.score = IF input.score # Nil THEN Numeric31(input.score[1]) ELSE @,
              !.watched = IF input.watched # Nil THEN input.watched[1] ELSE FALSE]

\* SET "updatedAt" = NOW() [, score = $1] [, watched = $2]
UpdateSet(r, input, now) ==
    [r EXCEPT !.updatedAt = now,
              !.score = IF input.score # Nil THEN Numeric31(input.score[1]) ELSE @,
              !.watched = IF input.watched # Nil THEN input.watched[1] ELSE @]

\* UPDATE "Movie" SET ... WHERE ... RETURNING ...
SvcUpdate(table, now, userID, id, input) ==
    LET hit == {r \in table : UpdateWhere(r, id, userID)}
    IN  IF hit = {}
        THEN SvcResult(Wrap("failed to update movie", ErrNoRows), <<>>, table)
        ELSE SvcResult(NoErr,
                       <<UpdateSet(CHOOSE r \in hit : TRUE, input, now)>>,
                       (table \ hit) \cup {UpdateSet(r, input, now) : r \in hit})

\* WHERE id = $1 AND "userId" = $2 of Delete
DeleteWhere(r, id, userID) == r.id = id /\ r.userId = userID

\* the delete that does not look at RowsAffected
DeleteErrIgnored(rowsAffected) == NoErr

\* the error Delete returns for result.RowsAffected()
DeleteErr(rowsAffected) == IF rowsAffected = 0 THEN ErrNoRows ELSE NoErr

\* DELETE FROM "Movie" WHERE id = $1 AND "userId" = $2
SvcDelete(table, id, userID) ==
    LET hit == {r \in table : DeleteWhere(r, id, userID)}
    IN  SvcResult(DeleteErr(Cardinality(hit)), <<>>, table \ hit)

\* List's defaults
NormPage(page) == IF page < 1 THEN 1 ELSE page

\* a limit above 100 taken as 100
NormLimitClamped(limit) ==
    IF limit < 1 THEN 27 ELSE IF limit > 100 THEN 100 ELSE limit

NormLimit(limit) == IF limit < 1 \/ limit > 100 THEN 27 ELSE limit

\* WHERE "userId" = $1 AND watched = $2 [AND title ILIKE $3]
ListWhere(r, userID, input) ==
    /\ r.userId = userID
    /\ r.watched = input.watched
    /\ (input.query # <<>> => ILike(r.title, input.query))

\* SELECT COUNT(*) FROM "Movie" WHERE ...
ListCount(table, userID, input) ==
    Cardinality({r \in table : ListWhere(r, userID, input)})

\* the orders ORDER BY "tmdbScore" DESC may return the rows of S in: any row
\* of the highest rating first, then the rest in such an order
RECURSIVE Orderings(_)
Orderings(S) ==
    IF S = {} THEN {<<>>}
    ELSE UNION {{<<r>> \o f : f \in Orderings(S \ {r})} :
                   r \in {x \in S : \A y \in S : x.tmdbScore >= y.tmdbScore}}

\* the slice that starts one row late
LimitOffsetSkipOne(f, limit, offset) ==
    IF offset + 1 >= Len(f) THEN <<>>
    ELSE SubSeq(f, offset + 2,
                IF offset + 1 + limit < Len(f) THEN offset + 1 + limit ELSE Len(f))

\* LIMIT $limit OFFSET $offset
LimitOffset(f, limit, offset) ==
    IF offset >= Len(f) THEN <<>>
    ELSE SubSeq(f, offset + 1, IF offset + limit < Len(f) THEN offset + limit ELSE Len(f))

\* the pages SELECT ... ORDER BY "tmdbScore" DESC LIMIT .. OFFSET .. may return
ListSelect(table, userID, input) ==
    LET page == NormPage(input.page)
        limit == NormLimit(input.limit)
        offset == (page - 1) * limit
    IN  {LimitOffset(f, limit, offset) :
            f \in Orderings({r \in table : ListWhere(r, userID, input)})}

\* the pages counted by the integer quotient
TotalPagesFloor(total, limit) == total \div limit

\* int(math.Ceil(float64(total) / float64(input.Limit)))
TotalPages(total, limit) == (total + limit - 1) \div limit

-----------------------------------------------------------------------------
(* MovieHandler.  SerieHandler is the same code over SerieService.          *)
(*                                                                          *)
(* last is the response the observed client is reading; it sends its next   *)
(* request once it has read it (Deliver).  A request handled while the      *)
(* observed client's List is between its two statements is another          *)
(* client's, and its response is not recorded.                              *)

CreateBodies ==
    {[valid |-> TRUE, tmdbId |-> c.tmdbId, title |-> c.title, tmdbScore |-> c.tmdbScore,
      releaseDate |-> Nil, score |-> s, watched |-> w] :
        c \in Catalog, s \in {Nil} \cup {Some(x) : x \in ScoreInputs}, w \in BOOLEAN}
    \cup {[valid |-> FALSE]}

\* release dates a client sends: none, "", 2024-02-29, 2023-02-29, 2024-5-17,
\* 2024/05/17, 17/05/2024
DateInputs ==
    { Nil,
      Some(<<>>),
      Some(<<"2", "0", "2", "4", "-", "0", "2", "-", "2", "9">>),
      Some(<<"2", "0", "2", "3", "-", "0", "2", "-", "2", "9">>),
      Some(<<"2", "0", "2", "4", "-", "5", "-", "1", "7">>),
      Some(<<"2", "0", "2", "4", "/", "0", "5", "/", "1", "7">>),
      Some(<<"1", "7", "/", "0", "5", "/", "2", "0", "2", "4">>) }

\* the bodies for one catalog title with a release date
DatedCreateBodies ==
    {[valid |-> TRUE, tmdbId |-> 603, title |-> <<"a", "B">>, tmdbScore |-> t,
      releaseDate |-> d, score |-> s, watched |-> w] :
        t \in {870, 725}, d \in DateInputs,
        s \in {Nil} \cup {Some(x) : x \in ScoreInputs}, w \in BOOLEAN}

UpdateBodies ==
    {[valid |-> TRUE, score |-> s, watched |-> w] :
        s \in {Nil} \cup {Some(x) : x \in ScoreInputs},
        w \in {Nil} \cup {Some(b) : b \in BOOLEAN}}
    \cup {[valid |-> FALSE]}

\* searches with the default paging, and pagings of the unfiltered list
ListInputs ==
    {[watched |-> w, query |-> <<>>, page |-> 1, limit |-> 0] : w \in BOOLEAN}
    \cup {[watched |-> FALSE, query |-> q, page |-> 1, limit |-> 0] : q \in Queries}
    \cup {[watched |-> FALSE, query |-> <<>>, page |-> p, limit |-> l] :
            p \in Pages, l \in Limits}

NoMeta == [page |-> 0, count |-> 0, totalPages |-> 0]

NoResp ==
    [op |-> "none", user |-> NoUser, id |-> BadID, in |-> Nil, status |-> 0,
     err |-> NoErr, rows |-> <<>>, page |-> 0, count |-> 0, totalPages |-> 0]

\* the response written for a request
Resp(op, user, id, in, status, err, rows, meta) ==
    [op |-> op, user |-> user, id |-> id, in |-> in,
     status |-> status, err |-> err, rows |-> rows,
     page |-> meta.page, count |-> meta.count, totalPages |-> meta.totalPages]

\* the response of a request of the observed client, or of another client
Observe(resp) == IF listReq = Nil THEN resp ELSE last

\* Create's status for the service's error
CreateStatus(err) ==
    IF err = NoErr THEN 201
    ELSE IF ErrorString(err) = "duplicate key value violates unique constraint" THEN 409
    ELSE 500

\* Get's status for the service's error (err == pgx.ErrNoRows)
GetStatus(err) ==
    IF err = NoErr THEN 200 ELSE IF err = ErrNoRows THEN 404 ELSE 500

\* Update's status for the service's error (err == pgx.ErrNoRows)
UpdateStatus(err) ==
    IF err = NoErr THEN 200 ELSE IF err = ErrNoRows THEN 404 ELSE 500

\* Delete's status for the service's error (err == pgx.ErrNoRows)
DeleteStatus(err) ==
    IF err = NoErr THEN 204 ELSE IF err = ErrNoRows THEN 404 ELSE 500

\* POST /api/movies
HandlerCreate(user, body) ==
    /\ last = NoResp
    /\ IF user = NoUser
       THEN /\ last' = Observe(Resp("Create", user, BadID, body, 401, NoErr, <<>>, NoMeta))
            /\ UNCHANGED <<Movie, nextId>>
       ELSE IF ~body.valid
       THEN /\ last' = Observe(Resp("Create", user, BadID, body, 400, NoErr, <<>>, NoMeta))
            /\ UNCHANGED <<Movie, nextId>>
       ELSE LET r == SvcCreate(Movie, nextId, dbNow, user, body)
            IN  /\ r.err = NoErr => nextId <= MaxRows
                /\ Movie' = r.table
                /\ nextId' = IF r.err = NoErr THEN nextId + 1 ELSE nextId
                /\ last' = Observe(Resp("Create", user, BadID, body, CreateStatus(r.err),
                                        r.err, r.rows, NoMeta))
    /\ UNCHANGED <<dbNow, listReq>>
    /\ UNCHANGED apiVars
    /\ UNCHANGED authVars

\* GET /api/movies/{id}
HandlerGet(user, id) ==
    /\ last = NoResp
    /\ IF user = NoUser
       THEN last' = Observe(Resp("Get", user, id, Nil, 401, NoErr, <<>>, NoMeta))
       ELSE IF id = BadID
       THEN last' = Observe(Resp("Get", user, id, Nil, 400, NoErr, <<>>, NoMeta))
       ELSE LET r == SvcGet(Movie, id, user)
            IN  last' = Observe(Resp("Get", user, id, Nil, GetStatus(r.err), r.err,
                                     r.rows, NoMeta))
    /\ UNCHANGED <<Movie, nextId, dbNow, listReq>>
    /\ UNCHANGED apiVars
    /\ UNCHANGED authVars

\* PATCH /api/movies/{id}
HandlerUpdate(user, id, body) ==
    /\ last = NoResp
    /\ IF user = NoUser
       THEN /\ last' = Observe(Resp("Update", user, id, body, 401, NoErr, <<>>, NoMeta))
            /\ UNCHANGED Movie
       ELSE IF id = BadID \/ ~body.valid
       THEN /\ last' = Observe(Resp("Update", user, id, body, 400, NoErr, <<>>, NoMeta))
            /\ UNCHANGED Movie
       ELSE LET r == SvcUpdate(Movie, dbNow, user, id, body)
            IN  /\ Movie' = r.table
                /\ last' = Observe(Resp("Update", user, id, body, UpdateStatus(r.err),
                                        r.err, r.rows, NoMeta))
    /\ UNCHANGED <<nextId, dbNow, listReq>>
    /\ UNCHANGED apiVars
    /\ UNCHANGED authVars

\* DELETE /api/movies/{id}
HandlerDelete(user, id) ==
    /\ last = NoResp
    /\ IF user = NoUser
       THEN /\ last' = Observe(Resp("Delete", user, id, Nil, 401, NoErr, <<>>, NoMeta))
            /\ UNCHANGED Movie
       ELSE IF id = BadID
       THEN /\ last' = Observe(Resp("Delete", user, id, Nil, 400, NoErr, <<>>, NoMeta))
            /\ UNCHANGED Movie
       ELSE LET r == SvcDelete(Movie, id, user)
            IN  /\ Movie' = r.table
                /\ last' = Observe(Resp("Delete", user, id, Nil, DeleteStatus(r.err),
                                        r.err, <<>>, NoMeta))
    /\ UNCHANGED <<nextId, dbNow, listReq>>
    /\ UNCHANGED apiVars
    /\ UNCHANGED authVars

\* GET /api/movies, up to and including the COUNT statement
HandlerListCount(user, input) ==
    /\ last = NoResp
    /\ listReq = Nil
    /\ IF user = NoUser
       THEN /\ last' = Resp("List", user, BadID, input, 401, NoErr, <<>>, NoMeta)
            /\ UNCHANGED listReq
       ELSE /\ listReq' = Some([user |-> user, input |-> input,
                                total |-> ListCount(Movie, user, input)])
            /\ UNCHANGED last
    /\ UNCHANGED <<Movie, nextId, dbNow>>
    /\ UNCHANGED apiVars
    /\ UNCHANGED authVars

\* GET /api/movies, from the SELECT statement to the response
HandlerListSelect ==
    /\ listReq # Nil
    /\ LET q == listReq[1]
       IN  \E rows \in ListSelect(Movie, q.user, q.input) :
               last' = Resp("List", q.user, BadID, q.input, 200, NoErr, rows,
                            [page |-> NormPage(q.input.page),
                             count |-> q.total,
                             totalPages |-> TotalPages(q.total, NormLimit(q.input.limit))])
    /\ listReq' = Nil
    /\ UNCHANGED <<Movie, nextId, dbNow>>
    /\ UNCHANGED apiVars
    /\ UNCHANGED authVars

\* the observed client has read its response
Deliver ==
    /\ last # NoResp
    /\ last' = NoResp
    /\ UNCHANGED <<Movie, nextId, dbNow, listReq>>
    /\ UNCHANGED apiVars
    /\ UNCHANGED authVars

\* time passes in the relational store
DbTick ==
    /\ last = NoResp
    /\ dbNow < MaxDbNow
    /\ dbNow' = dbNow + 1
    /\ UNCHANGED <<Movie, nextId, listReq, last>>
    /\ UNCHANGED apiVars
    /\ UNCHANGED authVars

InitLib ==
    /\ Movie = {}
    /\ nextId = 1
    /\ dbNow = 0
    /\ listReq = Nil
    /\ last = NoResp

\* the requests clients send: one without a session, one with a malformed id
\* or body, and the well-formed ones
CreateRequests ==
    {<<NoUser, [valid |-> FALSE]>>}
    \cup {<<u, b>> : u \in Users, b \in CreateBodies}

ItemRequests ==
    {<<NoUser, BadID>>} \cup {<<u, id>> : u \in Users, id \in Ids \cup {BadID}}

UpdateRequests ==
    {<<NoUser, BadID, [valid |-> FALSE]>>}
    \cup {<<u, BadID, [valid |-> FALSE]>> : u \in Users}
    \cup {<<u, id, b>> : u \in Users, id \in Ids, b \in UpdateBodies}

ListRequests ==
    {<<NoUser, [watched |-> FALSE, query |-> <<>>, page |-> 1, limit |-> 0]>>}
    \cup {<<u, i>> : u \in Users, i \in ListInputs}

\* a request for one item arrives and its handler runs
ItemHandlers ==
    \/ \E q \in CreateRequests : HandlerCreate(q[1], q[2])
    \/ \E q \in ItemRequests : HandlerGet(q[1], q[2])
    \/ \E q \in UpdateRequests : HandlerUpdate(q[1], q[2], q[3])
    \/ \E q \in ItemRequests : HandlerDelete(q[1], q[2])

\* the requests for single items of all clients, within one instant of NOW()
NextLib ==
    \/ ItemHandlers
    \/ Deliver

\* row i of a library that many Creates have filled: the titles differ, and
\* so do the ratings but for those of the first two rows
LibraryRow(i, user, watched) ==
    [id |-> i, tmdbId |-> 600 + i, createdAt |-> 0, updatedAt |-> 0,
     title |-> <<"a", "B">>, releaseDate |-> Nil,
     tmdbScore |-> IF i = 1 THEN 20 ELSE 10 * i, score |-> 0,
     watched |-> watched, userId |-> user]

\* a watchlist of n items of user u1, a watched item of u1 and an item of u2
Library(n) ==
    {LibraryRow(i, "u1", FALSE) : i \in 1..n}
    \cup {LibraryRow(n + 1, "u1", TRUE), LibraryRow(n + 2, "u2", FALSE)}

LibrarySizes == {0, 1, MaxWatchlist - 1, MaxWatchlist}

\* the pagings a client asks for
PagedListInputs ==
    {[watched |-> w, query |-> <<>>, page |-> p, limit |-> l] :
        w \in BOOLEAN, p \in {-1, 0, 1, 2, 3},
        l \in {-1, 0, 1, 2, 26, 27, 28, 100, 101}}

InitPaged ==
    /\ Movie \in {Library(n) : n \in LibrarySizes}
    /\ nextId = Cardinality(Movie) + 1
    /\ dbNow = 0
    /\ listReq = Nil
    /\ last = NoResp

\* one client paging through its library
NextLibPaged ==
    \/ \E i \in PagedListInputs : HandlerListCount("u1", i)
    \/ HandlerListSelect
    \/ Deliver

\* creates with a release date, and reads and deletes of the items
NextLibDate ==
    \/ \E u \in Users, b \in DatedCreateBodies : HandlerCreate(u, b)
    \/ \E q \in ItemRequests : HandlerGet(q[1], q[2])
    \/ \E q \in ItemRequests : HandlerDelete(q[1], q[2])
    \/ Deliver

\* the same with List, whose two statements other requests come between
NextLibList ==
    \/ ItemHandlers
    \/ \E q \in ListRequests : HandlerListCount(q[1], q[2])
    \/ HandlerListSelect
    \/ Deliver


\* the requests for single items of clients who all add the same catalog
\* title, NOW() advancing between them
OneTitleCreateRequests ==
    {q \in CreateRequests : q[2].valid => q[2].tmdbId = 603}

NextLibClock ==
    \/ \E q \in OneTitleCreateRequests : HandlerCreate(q[1], q[2])
    \/ \E q \in ItemRequests : HandlerGet(q[1], q[2])
    \/ \E q \in UpdateRequests : HandlerUpdate(q[1], q[2], q[3])
    \/ \E q \in ItemRequests : HandlerDelete(q[1], q[2])
    \/ Deliver
    \/ DbTick


-----------------------------------------------------------------------------
(* Properties of the library services and handlers *)

\* an id no row has
MissingID == MaxRows + 1

\* title contains query, letters compared without case
ContainsFold(title, query) ==
    \E i \in 1..(Len(title) - Len(query) + 1) :
        \A k \in 1..Len(query) : Lower(title[i + k - 1]) = Lower(query[k])

\* the observed client's request of kind op is handled in this step
Handled(op) == last = NoResp /\ last'.op = op

\* C2: a Create whose (tmdbId, userID) pair already exists is answered 409 Conflict,
\* not a generic failure
C2_DuplicateCreateIsConflict ==
    (/\ last.op = "Create"
     /\ last.user \in Users
     /\ last.in.valid
     /\ last.status # 201
     /\ \E r \in Movie : r.tmdbId = last.in.tmdbId /\ r.userId = last.user)
    => last.status = 409

C4_ListFilter ==
    (last.op = "List" /\ last.status = 200)
    => \A i \in 1..Len(last.rows) :
          /\ last.rows[i].userId = last.user
          /\ last.rows[i].watched = last.in.watched
          /\ last.in.query # <<>> => ContainsFold(last.rows[i].title, last.in.query)

\* C7: no two rows share (tmdbId, userId), and a Create of an existing pair is
\* rejected, returns no row and leaves the table as it was
C7_UniquePairs ==
    [][/\ \A r1, r2 \in Movie' :
             (r1.tmdbId = r2.tmdbId /\ r1.userId = r2.userId) => r1 = r2
       /\ \A r \in Movie :
             (/\ Handled("Create")
              /\ last'.in.valid
              /\ last'.user = r.userId
              /\ last'.in.tmdbId = r.tmdbId)
             => /\ Movie' = Movie
                /\ last'.status # 201
                /\ last'.rows = <<>>]_vars

C7_Witness ==
    /\ last.op = "Create"
    /\ last.in.valid
    /\ last.status # 201
    /\ \E r \in Movie :
          /\ r.tmdbId = last.in.tmdbId
          /\ r.userId = last.user
          /\ r.watched # last.in.watched
    /\ \E r1, r2 \in Movie : r1.tmdbId = r2.tmdbId /\ r1.userId # r2.userId

\* C8: an Update that matches no row of the caller is answered 404
C8_UpdateMissingIs404 ==
    (last.op = "Update" /\ IsNoRows(last.err)) => last.status = 404

\* C9: a successful Update sets score and watched only where supplied, keeps every
\* other column and sets updatedAt to NOW()
C9_UpdateFrame ==
    [][(Handled("Update") /\ last'.status = 200)
       => \E r \in Movie :
             LET n == last'.rows[1]
             IN  /\ r.id = last'.id
                 /\ r.userId = last'.user
                 /\ Movie' = (Movie \ {r}) \cup {n}
                 /\ n.id = r.id
                 /\ n.tmdbId = r.tmdbId
                 /\ n.title = r.title
                 /\ n.tmdbScore = r.tmdbScore
                 /\ n.userId = r.userId
                 /\ n.createdAt = r.createdAt
                 /\ n.releaseDate = r.releaseDate
                 /\ n.score = IF last'.in.score = Nil THEN r.score
                              ELSE Numeric31(last'.in.score[1])
                 /\ n.watched = IF last'.in.watched = Nil THEN r.watched
                                ELSE last'.in.watched[1]
                 /\ n.updatedAt = dbNow]_vars

C9_Witness ==
    /\ last.op = "Update"
    /\ last.status = 200
    /\ last.in.score = Nil
    /\ last.in.watched = Some(TRUE)
    /\ last.rows[1].score # 0
    /\ last.rows[1].updatedAt > last.rows[1].createdAt
    /\ \E r \in Movie : r.id # last.id

\* C10: Delete removes the one row matching id and owner and answers 204; with no
\* such row (a second Delete) it changes nothing and answers 404
C10_DeleteOnce ==
    [][(Handled("Delete") /\ last'.status \notin {400, 401})
       => LET hit == {r \in Movie : r.id = last'.id /\ r.userId = last'.user}
          IN  IF hit # {}
              THEN /\ Cardinality(hit) = 1
                   /\ Movie' = Movie \ hit
                   /\ last'.status = 204
              ELSE /\ Movie' = Movie
                   /\ last'.err = ErrNoRows
                   /\ last'.status = 404]_vars

C10_Witness ==
    /\ last.op = "Delete"
    /\ last.status = 404
    /\ last.id < nextId
    /\ \A r \in Movie : r.id # last.id
    /\ Movie # {}

\* the text has the form YYYY-MM-DD
YmdForm(s) ==
    /\ Len(s) = 10
    /\ \A i \in {1, 2, 3, 4, 6, 7, 9, 10} : IsDigit(s[i])
    /\ s[5] = "-"
    /\ s[8] = "-"

\* the input has no date a caller could expect to be stored
DateAbsent(d) == d = Nil \/ d[1] = <<>> \/ ~YmdForm(d[1])

\* a Create that is neither rejected before the service nor a duplicate
\* succeeds whatever its date is, and a Get of the returned id by the owner
\* returns the row Create returned, of the caller, with the input's tmdbId,
\* title and watched flag, and no date when the input has none
CreateThenGet ==
    /\ (last'.user # NoUser /\ last'.in.valid
          /\ \A r \in Movie : ~(r.tmdbId = last'.in.tmdbId /\ r.userId = last'.user))
       => last'.status = 201
    /\ last'.status = 201
       => LET c == last'.rows[1]
              g == SvcGet(Movie', c.id, last'.user)
          IN  /\ g.err = NoErr
              /\ g.rows = <<c>>
              /\ c.userId = last'.user
              /\ c.tmdbId = last'.in.tmdbId
              /\ c.title = last'.in.title
              /\ c.watched = last'.in.watched
              /\ DateAbsent(last'.in.releaseDate) => c.releaseDate = Nil
              /\ ~DateAbsent(last'.in.releaseDate)
                 => (c.releaseDate # Nil
                     \/ ParseDate(last'.in.releaseDate[1]) = Nil)

\* C21 as stated: Create followed by Get of the returned ID by the owner
\* returns the item Create returned, with fields equal to the input: the
\* caller as owner, the ratings of the input (the user rating 0 when
\* unspecified), watched as given, and no date for an absent or malformed one.
C21_CreateThenGetEqualsInput ==
    [][Handled("Create")
       => /\ CreateThenGet
          /\ last'.status = 201
             => /\ last'.rows[1].tmdbScore = last'.in.tmdbScore
                /\ last'.rows[1].score = IF last'.in.score = Nil THEN 0
                                         ELSE last'.in.score[1]]_vars

\* C21 amended: the same, the two ratings being the input's rounded to the
\* one decimal of their columns.
C21_CreateThenGetStored ==
    [][Handled("Create")
       => /\ CreateThenGet
          /\ last'.status = 201
             => /\ last'.rows[1].tmdbScore = Numeric31(last'.in.tmdbScore)
                /\ last'.rows[1].score = IF last'.in.score = Nil THEN 0
                                         ELSE Numeric31(last'.in.score[1])]_vars

\* a Create with a malformed date and no rating has succeeded, another item
\* with a date being in the table
C21_Witness ==
    /\ last.op = "Create"
    /\ last.status = 201
    /\ last.in.releaseDate # Nil
    /\ last.in.releaseDate[1] # <<>>
    /\ ~YmdForm(last.in.releaseDate[1])
    /\ last.in.score = Nil
    /\ last.rows[1].releaseDate = Nil
    /\ \E r \in Movie : r.id # last.rows[1].id /\ r.releaseDate # Nil

\* the items of the caller that a List with this input is about
Matching(user, input) ==
    {r \in Movie : /\ r.userId = user
                   /\ r.watched = input.watched
                   /\ (input.query # <<>> => ILike(r.title, input.query))}

\* the page and the limit a List with this input is to use
EffectivePage(input) == IF input.page < 1 THEN 1 ELSE input.page

EffectiveLimit(input) == IF input.limit < 1 \/ input.limit > 100 THEN 27 ELSE input.limit

\* a List call answers
Listed == Handled("List") /\ last'.status = 200

\* C22: List's count is the number of all items matching the filter, whatever
\* page and limit are, and totalPages is the least number of pages of limit
\* items that hold count items: 0 when count is 0.
C22_CountAndTotalPages ==
    [][Listed
       => LET n == Cardinality(Matching(last'.user, last'.in))
              limit == EffectiveLimit(last'.in)
          IN  /\ last'.count = n
              /\ last'.totalPages * limit >= n
              /\ (last'.totalPages - 1) * limit < n
              /\ n = 0 => last'.totalPages = 0]_vars

C22_Witness ==
    /\ last.op = "List"
    /\ last.status = 200
    /\ last.in.page = 3
    /\ last.in.limit = 26
    /\ last.count = MaxWatchlist
    /\ last.totalPages = 2
    /\ last.rows = <<>>

\* C23: List returns the items at positions (page-1)*limit+1 .. page*limit of
\* the matching items in an order of descending external rating: at most
\* limit items, none twice, ratings never increasing, and none at all, with
\* the same count, for a page beyond the last.
C23_PageSlice ==
    [][Listed
       => LET M == Matching(last'.user, last'.in)
              n == Cardinality(M)
              limit == EffectiveLimit(last'.in)
              offset == (EffectivePage(last'.in) - 1) * limit
              rows == last'.rows
          IN  /\ Len(rows) <= limit
              /\ Len(rows) = IF n - offset <= 0 THEN 0
                             ELSE IF n - offset < limit THEN n - offset
                             ELSE limit
              /\ \A k \in 1..Len(rows) :
                     /\ rows[k] \in M
                     /\ Cardinality({r \in M : r.tmdbScore > rows[k].tmdbScore})
                            <= offset + k - 1
                     /\ Cardinality({r \in M : r.tmdbScore >= rows[k].tmdbScore})
                            >= offset + k
                     /\ \A j \in 1..(k - 1) :
                            /\ rows[j].tmdbScore >= rows[k].tmdbScore
                            /\ rows[j] # rows[k]
              /\ offset >= n => (rows = <<>> /\ last'.count = n)]_vars

C23_Witness ==
    /\ last.op = "List"
    /\ last.status = 200
    /\ last.in.page = 2
    /\ last.in.limit = 2
    /\ last.count = MaxWatchlist
    /\ Len(last.rows) = 2
    /\ last.rows[1].tmdbScore > last.rows[2].tmdbScore

\* C24: a List with a page below 1 or a limit outside 1..100 answers what the
\* call with page 1, or limit 27, in its place may answer: the same items, count,
\* totalPages and page.
C24_Defaults ==
    [][(Listed /\ (last'.in.page < 1 \/ last'.in.limit < 1 \/ last'.in.limit > 100))
       => LET defaulted == [last'.in EXCEPT !.page = IF @ < 1 THEN 1 ELSE @,
                                           !.limit = IF @ < 1 \/ @ > 100 THEN 27 ELSE @]
          IN  /\ last'.rows \in ListSelect(Movie, last'.user, defaulted)
              /\ last'.count = ListCount(Movie, last'.user, defaulted)
              /\ last'.totalPages = TotalPages(last'.count, defaulted.limit)
              /\ last'.page = defaulted.page]_vars

C24_Witness ==
    /\ last.op = "List"
    /\ last.status = 200
    /\ last.in.page = 0
    /\ last.in.limit = 101
    /\ last.count = MaxWatchlist
    /\ Len(last.rows) = 27
    /\ last.totalPages = 2
    /\ last.page = 1


\* C30: a List response never has more items than its count, and page 1 of a
\* list that fits in one page has exactly count items, whatever other requests
\* of the same user are handled meanwhile
C30_CountMatchesPage ==
    (last.op = "List" /\ last.status = 200)
    => /\ Len(last.rows) <= last.count
       /\ (last.page = 1 /\ last.count <= NormLimit(last.in.limit))
          => Len(last.rows) = last.count

-----------------------------------------------------------------------------
(* The API routes: rateLimiter.Limit(authMiddleware.RequireAuthAPI(handler)) *)
(*                                                                          *)
(* A sorted set of the key-value store is the set of the scores of its      *)
(* members: the limiter's member is the decimal text of its score, so two   *)
(* members are equal exactly when their scores are.                         *)

\* RateLimiter.maxRequests and RateLimiter.window (in seconds), scaled down
maxRequests == 2
window == 3

Procs == {"p1", "p2"}
NoCookie == ""
RemoteAddr == "10.0.0.1:5555"
\* the requests clients send: the session cookie and the X-Forwarded-For header
ApiRequests ==
    { [cookie |-> NoCookie, xff |-> ""],
      [cookie |-> "t1", xff |-> ""],
      [cookie |-> "t0", xff |-> "1.2.3.4"] }

NoTTL == -1
NoKey == ""
Idle == [pc |-> "idle", cookie |-> NoCookie, xff |-> "", key |-> NoKey,
         now |-> 0, count |-> 0]

\* the user ID in the context of a request as the server hands it to the
\* outermost middleware of a route
IncomingUserID == NoUser

getIdentifier(ctxUserID, xff) ==
    IF ctxUserID # NoUser THEN "user:" \o ctxUserID
    ELSE "ip:" \o (IF xff = "" THEN RemoteAddr ELSE xff)

RateLimitKey(identifier) == "ratelimit:" \o identifier

Keys == {RateLimitKey(getIdentifier(u, r.xff)) :
            u \in Users \cup {NoUser}, r \in ApiRequests}

\* the decision of checkRateLimit from the count its pipeline read
Allowed(count) == count < maxRequests

\* checkRateLimit with its first test left out
SkipNever == FALSE

\* checkRateLimit outside production: allowed, before any command is built
Skipped == ~isProduction

\* what Limit does with the pair checkRateLimit returned, the error ignored
LimitOutcomeErrIgnored(allowed, failed) ==
    IF ~allowed THEN "rejected" ELSE "next"

\* what Limit does with the pair checkRateLimit returned
LimitOutcome(allowed, failed) ==
    IF failed THEN "error"
    ELSE IF ~allowed THEN "rejected"
    ELSE "next"

\* ZADD key now "now": the member is the text of its score
ZAddMember(set, now) == set \cup {now}

\* the members with min <= score < max
ZRangeByScoreExclusive(set, min, max) == {s \in set : min <= s /\ s < max}

\* the members of a sorted set with min <= score <= max
ZRangeByScore(set, min, max) == {s \in set : min <= s /\ s <= max}

\* the session lifetime main gives to NewSessionStore: 7*24*time.Hour
SevenDays == 604800

\* the tokens GenerateSessionID has handed out
Tokens == {"t1"}

\* an expiry time; those after the last instant of the model are all alike
Deadline(t) == IF t > MaxClock THEN MaxClock + 1 ELSE t

\* SET session:<token> <userID>, the key without a time to live
StoreSETNoExpiry(s, token, userID) ==
    [t \in DOMAIN s \cup {token} |->
        IF t = token THEN [userID |-> userID, expireAt |-> MaxClock + 1] ELSE s[t]]

\* SET session:<token> <userID> EX ttl
StoreSET(s, token, userID) ==
    [t \in DOMAIN s \cup {token} |->
        IF t = token THEN [userID |-> userID, expireAt |-> Deadline(clock + ttl)]
        ELSE s[t]]

\* the refresh that writes the key again
StoreEXPIREAsSet(s, token) ==
    [t \in DOMAIN s \cup {token} |->
        IF t = token
        THEN [userID |-> IF token \in DOMAIN s THEN s[token].userID ELSE "u1",
              expireAt |-> Deadline(clock + ttl)]
        ELSE s[t]]

\* EXPIRE session:<token> ttl, which does nothing to a key that is gone
StoreEXPIRE(s, token) ==
    IF token \in DOMAIN s
    THEN [s EXCEPT ![token].expireAt = Deadline(clock + ttl)]
    ELSE s

\* DEL session:<token>
StoreDEL(s, token) == [t \in DOMAIN s \ {token} |-> s[t]]

\* the keys left when the clock shows now; an expiry time after the last
\* instant of the model is never reached
StoreUnexpired(s, now) ==
    [t \in {k \in DOMAIN s : s[k].expireAt > now \/ s[k].expireAt > MaxClock} |-> s[t]]

\* what the callers know after a Set, a Delete, and a Get that returned a user ID
SeenSet(k, token, userID) ==
    [k EXCEPT ![token] = [userID |-> userID, lastOk |-> clock, read |-> FALSE]]

SeenDelete(k, token) == [k EXCEPT ![token] = Nil]

SeenGet(k, token) ==
    IF token \in DOMAIN k /\ k[token] # Nil
    THEN [k EXCEPT ![token] = [userID |-> k[token].userID, lastOk |-> clock,
                              read |-> TRUE]]
    ELSE k

\* SessionStore.Get and UserService.Get as RequireAuthAPI uses them
SessionGet(token) ==
    IF token \in DOMAIN session
    THEN [err |-> FALSE, userID |-> session[token].userID]
    ELSE [err |-> TRUE, userID |-> NoUser]

UserGet(userID) == \E u \in User : u.id = userID

\* the answer of RequireAuthAPI(handler): 401, or the handler's with the user
\* ID it found in its context
RequireAuthAPI(cookie) ==
    IF cookie = NoCookie THEN [status |-> 401, userID |-> NoUser]
    ELSE IF SessionGet(cookie).err THEN [status |-> 401, userID |-> NoUser]
    ELSE IF ~UserGet(SessionGet(cookie).userID)
         THEN [status |-> 401, userID |-> NoUser]
    ELSE [status |-> 200, userID |-> SessionGet(cookie).userID]

InFlight == {p \in Procs : req[p].pc # "idle"}

\* the request of process p is answered
Answer(p, status, userID) ==
    /\ hist' = Append(hist, [cookie |-> req[p].cookie, xff |-> req[p].xff,
                             key |-> req[p].key, now |-> req[p].now,
                             count |-> req[p].count, status |-> status,
                             userID |-> userID])
    /\ req' = [req EXCEPT ![p] = Idle]

\* the rest of Limit: an error answer, a rejection, or the next handler
LimitAct(p, outcome) ==
    CASE outcome = "error" -> Answer(p, 500, NoUser)
      [] outcome = "rejected" -> Answer(p, 429, NoUser)
      [] outcome = "next" -> /\ req' = [req EXCEPT ![p].pc = "next"]
                             /\ UNCHANGED hist

\* Limit up to the pipeline of checkRateLimit, for the first max requests
LimitEnterUpTo(p, r, max) ==
    /\ req[p].pc = "idle"
    /\ Len(hist) + Cardinality(InFlight) < max
    /\ LET identifier == getIdentifier(IncomingUserID, r.xff)
       IN  IF Skipped
           THEN req' = [req EXCEPT ![p] = [Idle EXCEPT !.pc = "next",
                            !.cookie = r.cookie, !.xff = r.xff]]
           ELSE req' = [req EXCEPT ![p] = [pc |-> "ZRemRangeByScore",
                            cookie |-> r.cookie, xff |-> r.xff,
                            key |-> RateLimitKey(identifier),
                            now |-> clock, count |-> 0]]
    /\ UNCHANGED <<isProduction, clock, zset, expireAt, session, User, hist>>
    /\ UNCHANGED libVars
    /\ UNCHANGED authVars

LimitEnter(p, r) == LimitEnterUpTo(p, r, MaxCalls)

\* ZREMRANGEBYSCORE key 0 windowStart; a sorted set left empty is deleted
ZRemRangeByScore(p) ==
    /\ req[p].pc = "ZRemRangeByScore"
    /\ LET key == req[p].key
           windowStart == req[p].now - window
           rest == zset[key] \ ZRangeByScore(zset[key], 0, windowStart)
       IN  /\ zset' = [zset EXCEPT ![key] = rest]
           /\ expireAt' = [expireAt EXCEPT ![key] =
                              IF rest = {} THEN NoTTL ELSE @]
    /\ req' = [req EXCEPT ![p].pc = "ZCard"]
    /\ UNCHANGED <<isProduction, clock, session, User, hist>>
    /\ UNCHANGED libVars
    /\ UNCHANGED authVars

\* ZCARD key
ZCard(p) ==
    /\ req[p].pc = "ZCard"
    /\ req' = [req EXCEPT ![p].pc = "ZAdd",
                          ![p].count = Cardinality(zset[req[p].key])]
    /\ UNCHANGED <<isProduction, clock, zset, expireAt, session, User, hist>>
    /\ UNCHANGED libVars
    /\ UNCHANGED authVars

\* ZADD key now "now"
ZAdd(p) ==
    /\ req[p].pc = "ZAdd"
    /\ zset' = [zset EXCEPT ![req[p].key] = ZAddMember(@, req[p].now)]
    /\ req' = [req EXCEPT ![p].pc = "Expire"]
    /\ UNCHANGED <<isProduction, clock, expireAt, session, User, hist>>
    /\ UNCHANGED libVars
    /\ UNCHANGED authVars

\* EXPIRE key window, the end of the pipeline, and the rest of Limit
Expire(p) ==
    /\ req[p].pc = "Expire"
    /\ expireAt' = [expireAt EXCEPT ![req[p].key] =
                       IF zset[req[p].key] = {} THEN @ ELSE clock + window]
    /\ LimitAct(p, LimitOutcome(Allowed(req[p].count), FALSE))
    /\ UNCHANGED <<isProduction, clock, zset, session, User>>
    /\ UNCHANGED libVars
    /\ UNCHANGED authVars

\* the store fails: Exec returns an error and the commands not yet run are lost
ExecError(p) ==
    /\ req[p].pc \in {"ZRemRangeByScore", "ZCard", "ZAdd", "Expire"}
    /\ LimitAct(p, LimitOutcome(FALSE, TRUE))
    /\ UNCHANGED <<isProduction, clock, zset, expireAt, session, User>>
    /\ UNCHANGED libVars
    /\ UNCHANGED authVars

\* next.ServeHTTP of Limit: RequireAuthAPI and the handler behind it
LimitNext(p) ==
    /\ req[p].pc = "next"
    /\ LET a == RequireAuthAPI(req[p].cookie)
       IN  Answer(p, a.status, a.userID)
    /\ IF SessionGet(req[p].cookie).err
       THEN UNCHANGED <<session, seen>>
       ELSE /\ session' = StoreEXPIRE(session, req[p].cookie)
            /\ seen' = SeenGet(seen, req[p].cookie)
    /\ UNCHANGED <<isProduction, clock, zset, expireAt, User>>
    /\ UNCHANGED libVars
    /\ UNCHANGED <<ttl, call, answer>>

\* d seconds pass; the store deletes the keys whose time to live is over
Pass(d) ==
    /\ clock' = clock + d
    /\ LET dead == {k \in Keys : expireAt[k] # NoTTL /\ expireAt[k] <= clock + d}
       IN  /\ zset' = [k \in Keys |-> IF k \in dead THEN {} ELSE zset[k]]
           /\ expireAt' = [k \in Keys |-> IF k \in dead THEN NoTTL ELSE expireAt[k]]
    /\ session' = StoreUnexpired(session, clock + d)
    /\ UNCHANGED <<isProduction, User, req, hist>>
    /\ UNCHANGED libVars
    /\ UNCHANGED authVars

\* a second passes
Tick == clock < MaxClock /\ Pass(1)

\* a full window passes in which no request arrives
IdleWindow == InFlight = {} /\ clock < MaxClock /\ Pass(window)

-----------------------------------------------------------------------------
(* SessionStore and AuthMiddleware.  A call is the steps of one goroutine:  *)
(* the commands it sends to the key-value store and the statement it sends  *)
(* to the relational store, with other goroutines' steps between them.      *)

Middlewares == {"RequireAuth", "OptionalAuth", "RequireAuthAPI"}

\* a cookie value no session was stored under
StaleToken == "t0"

IdleCall == [pc |-> "idle", op |-> "none", cookie |-> NoCookie, userID |-> NoUser,
             failed |-> "none", in |-> Nil]

NoAnswer ==
    [op |-> "none", cookie |-> NoCookie, status |-> 0, location |-> "",
     setCookie |-> "", handler |-> 0, ctxUserID |-> NoUser, ctxUser |-> Nil,
     failed |-> "none", err |-> "", in |-> Nil]

\* http.Redirect(w, r, "/login", http.StatusSeeOther)
RedirectToLogin(a) == [a EXCEPT !.status = 303, !.location = "/login"]

\* http.SetCookie with an empty value and MaxAge -1: a header, which is lost
\* when the status line has been written
ClearCookie(a) ==
    IF a.status = 0 THEN [a EXCEPT !.setCookie = "session=; Path=/; Max-Age=0"]
    ELSE a

\* the redirect written first and the cookie after it
RedirectThenClear(a) == ClearCookie(RedirectToLogin(a))

\* RequireAuth when the user lookup failed: the cookie, then the redirect
ClearAndRedirect(a) == RedirectToLogin(ClearCookie(a))

\* an answer to a failed check that is a redirect
UnauthorizedRedirect(a) == [a EXCEPT !.status = 303, !.location = "/login"]

\* http.Error(w, `{"error":"Unauthorized"}`, http.StatusUnauthorized)
Unauthorized(a) == [a EXCEPT !.status = 401]

\* next.ServeHTTP(w, r): the handler runs without an identity in its context
ServeNext(a) == [a EXCEPT !.status = 200, !.handler = @ + 1]

\* the handler runs with the user ID in its context and no user
ServeNextWithoutUser(a, userID, user) ==
    [a EXCEPT !.status = 200, !.handler = @ + 1, !.ctxUserID = userID]

\* next.ServeHTTP(w, r.WithContext(ctx)): the handler runs with the user and
\* the user ID in its context
ServeNextAs(a, userID, user) ==
    [a EXCEPT !.status = 200, !.handler = @ + 1, !.ctxUserID = userID,
              !.ctxUser = Some(user)]

\* every middleware going on to the handler when a check fails
OnFailureServe(op, a) == ServeNext(a)

\* what a middleware answers when a check fails and nothing is left to do
OnFailure(op, a) ==
    CASE op = "RequireAuth" -> RedirectToLogin(a)
      [] op = "OptionalAuth" -> ServeNext(a)
      [] op = "RequireAuthAPI" -> Unauthorized(a)

AnswerOf(p, failed) ==
    [NoAnswer EXCEPT !.op = call[p].op, !.cookie = call[p].cookie,
                     !.failed = failed]

\* the call of process p ends with answer a
Return(p, a) ==
    /\ answer' = a
    /\ call' = [call EXCEPT ![p] = IdleCall]

\* AuthHandler's callbacks: sessionStore.Set(sessionID, user.ID)
SessionSet(token, userID) ==
    /\ session' = StoreSET(session, token, userID)
    /\ seen' = SeenSet(seen, token, userID)
    /\ UNCHANGED <<isProduction, clock, zset, expireAt, User, req, hist>>
    /\ UNCHANGED <<ttl, call, answer>>
    /\ UNCHANGED libVars

\* AuthHandler.Logout: sessionStore.Delete(cookie.Value)
SessionDelete(token) ==
    /\ session' = StoreDEL(session, token)
    /\ seen' = SeenDelete(seen, token)
    /\ UNCHANGED <<isProduction, clock, zset, expireAt, User, req, hist>>
    /\ UNCHANGED <<ttl, call, answer>>
    /\ UNCHANGED libVars

\* a call of SessionStore.Get, or a request reaching a middleware: r.Cookie
CallBegin(p, op, cookie) ==
    /\ call[p].pc = "idle"
    /\ IF op \in Middlewares /\ cookie = NoCookie
       THEN Return(p, OnFailure(op, [NoAnswer EXCEPT !.op = op, !.failed = "cookie"]))
       ELSE /\ call' = [call EXCEPT ![p] = [IdleCall EXCEPT !.pc = "GET", !.op = op,
                                                          !.cookie = cookie]]
            /\ UNCHANGED answer
    /\ UNCHANGED <<isProduction, clock, zset, expireAt, session, User, req, hist>>
    /\ UNCHANGED <<ttl, seen>>
    /\ UNCHANGED libVars

\* SessionStore.Get: GET session:<token>; redis.Nil is "session not found"
SessionGetGET(p) ==
    /\ call[p].pc = "GET"
    /\ IF call[p].cookie \in DOMAIN session
       THEN /\ call' = [call EXCEPT ![p].pc = "EXPIRE",
                                    ![p].userID = session[call[p].cookie].userID]
            /\ UNCHANGED answer
       ELSE LET a == [AnswerOf(p, "session") EXCEPT !.err = "session not found"]
            IN  Return(p, IF call[p].op = "Get" THEN a ELSE OnFailure(call[p].op, a))
    /\ UNCHANGED <<isProduction, clock, zset, expireAt, session, User, req, hist>>
    /\ UNCHANGED <<ttl, seen>>
    /\ UNCHANGED libVars

\* SessionStore.Get: the store does not answer the GET
SessionGetError(p) ==
    /\ call[p].pc = "GET"
    /\ LET a == [AnswerOf(p, "session") EXCEPT !.err = "failed to get session"]
       IN  Return(p, IF call[p].op = "Get" THEN a ELSE OnFailure(call[p].op, a))
    /\ UNCHANGED <<isProduction, clock, zset, expireAt, session, User, req, hist>>
    /\ UNCHANGED <<ttl, seen>>
    /\ UNCHANGED libVars

\* SessionStore.Get: EXPIRE session:<token> ttl, its result unread, and return
SessionGetEXPIRE(p) ==
    /\ call[p].pc = "EXPIRE"
    /\ session' = StoreEXPIRE(session, call[p].cookie)
    /\ seen' = SeenGet(seen, call[p].cookie)
    /\ IF call[p].op = "Get"
       THEN Return(p, [AnswerOf(p, "none") EXCEPT !.ctxUserID = call[p].userID])
       ELSE /\ call' = [call EXCEPT ![p].pc = "UserGet"]
            /\ UNCHANGED answer
    /\ UNCHANGED <<isProduction, clock, zset, expireAt, User, req, hist>>
    /\ UNCHANGED ttl
    /\ UNCHANGED libVars

\* what a middleware does when userService.Get returned an error
OnUserError(p, failed) ==
    IF call[p].op = "RequireAuth"
    THEN /\ call' = [call EXCEPT ![p].pc = "DEL", ![p].failed = failed]
         /\ UNCHANGED answer
    ELSE Return(p, OnFailure(call[p].op, AnswerOf(p, failed)))

\* userService.Get: SELECT ... FROM "User" WHERE id = $1
MiddlewareUserGet(p) ==
    /\ call[p].pc = "UserGet"
    /\ LET rows == {u \in User : u.id = call[p].userID}
       IN  IF rows # {}
           THEN Return(p, ServeNextAs(AnswerOf(p, "none"), call[p].userID,
                                      CHOOSE u \in rows : TRUE))
           ELSE OnUserError(p, "user not found")
    /\ UNCHANGED <<isProduction, clock, zset, expireAt, session, User, req, hist>>
    /\ UNCHANGED <<ttl, seen>>
    /\ UNCHANGED libVars

\* userService.Get: the relational store does not answer
MiddlewareUserGetError(p) ==
    /\ call[p].pc = "UserGet"
    /\ OnUserError(p, "user lookup failed")
    /\ UNCHANGED <<isProduction, clock, zset, expireAt, session, User, req, hist>>
    /\ UNCHANGED <<ttl, seen>>
    /\ UNCHANGED libVars

\* RequireAuth: sessionStore.Delete, the cookie cleared, the redirect
RequireAuthClear(p) ==
    /\ call[p].pc = "DEL"
    /\ session' = StoreDEL(session, call[p].cookie)
    /\ seen' = SeenDelete(seen, call[p].cookie)
    /\ Return(p, ClearAndRedirect(AnswerOf(p, call[p].failed)))
    /\ UNCHANGED <<isProduction, clock, zset, expireAt, User, req, hist>>
    /\ UNCHANGED ttl
    /\ UNCHANGED libVars

\* UserService.Delete: DELETE FROM "User" WHERE id = $1, cascading to the
\* user's library
UserDelete(id) ==
    /\ \E u \in User : u.id = id
    /\ User' = {u \in User : u.id # id}
    /\ Movie' = {r \in Movie : r.userId # id}
    /\ UNCHANGED <<nextId, dbNow, listReq, last>>
    /\ UNCHANGED <<isProduction, clock, zset, expireAt, session, req, hist>>
    /\ UNCHANGED authVars

\* the provider accounts that log in: the ID the provider gives, as text
ProviderIDs == {"100", "200"}

\* CREATE TYPE "Provider" AS ENUM ('GITHUB', 'GOOGLE')
Providers == {"GITHUB", "GOOGLE"}

\* Provider.IsValid
IsValid(provider) == provider = "GITHUB" \/ provider = "GOOGLE"

\* "providerId" varchar(255) NOT NULL UNIQUE
User_providerId_unique(rows, n) == \A u \in rows : u.providerId # n.providerId

\* SELECT ... FROM "User" WHERE "providerId" = $1
FindByProviderIDWhere(u, providerID) == u.providerId = providerID

\* a callback calls FindOrCreate(providerID, provider, email, name)
FindOrCreateBegin(p, providerID, provider) ==
    /\ call[p].pc = "idle"
    /\ call' = [call EXCEPT ![p] =
                   [IdleCall EXCEPT !.pc = "FindByProviderID", !.op = "FindOrCreate",
                       !.in = [providerID |-> providerID, provider |-> provider]]]
    /\ UNCHANGED <<isProduction, clock, zset, expireAt, session, User, req, hist>>
    /\ UNCHANGED <<ttl, seen, answer>>
    /\ UNCHANGED libVars

\* FindByProviderID: the row found is returned; with no row FindOrCreate goes
\* on to Create
FindByProviderID(p) ==
    /\ call[p].pc = "FindByProviderID"
    /\ LET hit == {u \in User : FindByProviderIDWhere(u, call[p].in.providerID)}
       IN  IF hit # {}
           THEN \E u \in hit :
                    Return(p, [NoAnswer EXCEPT !.op = "FindOrCreate",
                                  !.in = call[p].in, !.ctxUser = Some(u)])
           ELSE /\ call' = [call EXCEPT ![p].pc = "Create"]
                /\ UNCHANGED answer
    /\ UNCHANGED <<isProduction, clock, zset, expireAt, session, User, req, hist>>
    /\ UNCHANGED <<ttl, seen>>
    /\ UNCHANGED libVars

\* FindByProviderID fails with an error other than pgx.ErrNoRows
FindByProviderIDError(p) ==
    /\ call[p].pc = "FindByProviderID"
    /\ Return(p, [NoAnswer EXCEPT !.op = "FindOrCreate", !.in = call[p].in,
                      !.err = "failed to find user"])
    /\ UNCHANGED <<isProduction, clock, zset, expireAt, session, User, req, hist>>
    /\ UNCHANGED <<ttl, seen>>
    /\ UNCHANGED libVars

\* UserService.Create: INSERT INTO "User" ... RETURNING, the id by
\* gen_random_uuid
UserCreate(p) ==
    /\ call[p].pc = "Create"
    /\ LET a == [NoAnswer EXCEPT !.op = "FindOrCreate", !.in = call[p].in]
           free == Users \ {u.id : u \in User}
       IN  IF ~IsValid(call[p].in.provider)
           THEN /\ Return(p, [a EXCEPT !.err = "invalid provider"])
                /\ UNCHANGED User
           ELSE IF free = {} \/ ~User_providerId_unique(User,
                                      [providerId |-> call[p].in.providerID])
           THEN /\ Return(p, [a EXCEPT !.err = "failed to create user"])
                /\ UNCHANGED User
           ELSE \E id \in free :
                    LET n == [id |-> id, providerId |-> call[p].in.providerID,
                              provider |-> call[p].in.provider]
                    IN  /\ User' = User \cup {n}
                        /\ Return(p, [a EXCEPT !.ctxUser = Some(n)])
    /\ UNCHANGED <<isProduction, clock, zset, expireAt, session, req, hist>>
    /\ UNCHANGED <<ttl, seen>>
    /\ UNCHANGED libVars

InitAuth ==
    /\ ttl \in {SessionTTL, SevenDays}
    /\ call = [p \in Procs |-> IdleCall]
    /\ seen = [t \in Tokens |-> [userID |-> "u1", lastOk |-> 0, read |-> FALSE]]
    /\ answer = NoAnswer

InitApi ==
    /\ isProduction \in BOOLEAN
    /\ clock = 0
    /\ zset = [k \in Keys |-> {}]
    /\ expireAt = [k \in Keys |-> NoTTL]
    /\ session = [t \in Tokens |-> [userID |-> "u1", expireAt |-> Deadline(ttl)]]
    /\ User = {[id |-> "u1", providerId |-> "100", provider |-> "GITHUB"]}
    /\ req = [p \in Procs |-> Idle]
    /\ hist = <<>>

\* the requests of one signed-in client, interleaved
ClientRequests == {r \in ApiRequests : r.cookie \in DOMAIN session}

NextApi ==
    \/ \E p \in Procs, r \in ClientRequests : LimitEnter(p, r)
    \/ \E p \in Procs : ZRemRangeByScore(p)
    \/ \E p \in Procs : ZCard(p)
    \/ \E p \in Procs : ZAdd(p)
    \/ \E p \in Procs : Expire(p)
    \/ \E p \in Procs : ExecError(p)
    \/ \E p \in Procs : LimitNext(p)
    \/ Tick

\* the library with the routes at rest, and the routes with the library at rest
-----------------------------------------------------------------------------
(* Two PATCH requests in flight at once *)

\* the bodies two clients of one library send
PairUpdateBodies ==
    {[valid |-> TRUE, score |-> Some(x), watched |-> Nil] : x \in {75, 40}}
    \cup {[valid |-> TRUE, score |-> Nil, watched |-> Some(b)] : b \in BOOLEAN}

\* the first client owns its library, the second one item
PairUpdateRequests ==
    {<<NoUser, BadID, [valid |-> FALSE]>>, <<"u1", BadID, [valid |-> FALSE]>>}
    \cup {<<"u1", id, b>> : id \in Ids, b \in PairUpdateBodies}
    \cup {<<"u2", 1, [valid |-> TRUE, score |-> Some(75), watched |-> Some(TRUE)]>>}

\* a title added unrated and unwatched
PairCreateRequests ==
    {q \in OneTitleCreateRequests :
        q[2].valid /\ q[2].score = Nil /\ ~q[2].watched}

\* the answer a PATCH request has got
UpdateAnswered(c, status, rows) ==
    [c EXCEPT !.pc = "done", !.in = [id |-> c.in.id, body |-> c.in.body,
                                     status |-> status, rows |-> rows]]

\* MovieHandler.Update up to the call of the service: the user of the context,
\* the id of the path and the decoded body
UpdateArrive(p, user, id, body) ==
    /\ call[p].pc = "idle"
    /\ LET c == [IdleCall EXCEPT !.pc = "UPDATE", !.op = "Update", !.userID = user,
                                 !.in = [id |-> id, body |-> body]]
       IN  call' = [call EXCEPT ![p] =
                       IF user = NoUser THEN UpdateAnswered(c, 401, <<>>)
                       ELSE IF id = BadID \/ ~body.valid THEN UpdateAnswered(c, 400, <<>>)
                       ELSE c]
    /\ UNCHANGED <<ttl, seen, answer>>
    /\ UNCHANGED libVars
    /\ UNCHANGED apiVars

\* MovieService.Update, one UPDATE statement, and the handler's answer
UpdateStatement(p) ==
    /\ call[p].pc = "UPDATE"
    /\ LET c == call[p]
           r == SvcUpdate(Movie, dbNow, c.userID, c.in.id, c.in.body)
       IN  /\ Movie' = r.table
           /\ call' = [call EXCEPT ![p] = UpdateAnswered(c, UpdateStatus(r.err), r.rows)]
    /\ UNCHANGED <<nextId, dbNow, listReq, last>>
    /\ UNCHANGED <<ttl, seen, answer>>
    /\ UNCHANGED apiVars

\* the clients have their answers and may send their next requests
UpdatesReturn ==
    /\ \A p \in Procs : call[p].pc \in {"idle", "done"}
    /\ \E p \in Procs : call[p].pc = "done"
    /\ call' = [p \in Procs |-> IdleCall]
    /\ UNCHANGED <<ttl, seen, answer>>
    /\ UNCHANGED libVars
    /\ UNCHANGED apiVars

\* two clients updating items while items are created and deleted, within one
\* instant of NOW()
NextLibPair ==
    \/ \E q \in PairCreateRequests : HandlerCreate(q[1], q[2])
    \/ \E id \in Ids : HandlerDelete("u1", id)
    \/ Deliver
    \/ \E p \in Procs, q \in PairUpdateRequests : UpdateArrive(p, q[1], q[2], q[3])
    \/ \E p \in Procs : UpdateStatement(p)
    \/ UpdatesReturn

Init == InitLib /\ InitAuth /\ InitApi /\ ttl = SevenDays

InitProduction == InitLib /\ InitAuth /\ InitApi /\ ttl = SevenDays /\ isProduction = TRUE

\* the same with a session store of a short lifetime
InitShortTTL ==
    InitLib /\ InitAuth /\ InitApi /\ ttl = SessionTTL /\ isProduction = TRUE

SpecLib == InitProduction /\ [][NextLib]_vars

SpecLibClock == InitProduction /\ [][NextLibClock]_vars

SpecLibList == InitProduction /\ [][NextLibList]_vars

SpecLibPair == InitProduction /\ [][NextLibPair]_vars

SpecLibDate == InitProduction /\ [][NextLibDate]_vars

InitLibPaged ==
    InitPaged /\ InitAuth /\ InitApi /\ ttl = SevenDays /\ isProduction = TRUE

SpecLibPaged == InitLibPaged /\ [][NextLibPaged]_vars

SpecApi == Init /\ [][NextApi]_vars

\* one request at a time: a request arrives when none is in flight
NextApiSeq ==
    \/ \E r \in ApiRequests : InFlight = {} /\ LimitEnter("p1", r)
    \/ ZRemRangeByScore("p1")
    \/ ZCard("p1")
    \/ ZAdd("p1")
    \/ Expire("p1")
    \/ ExecError("p1")
    \/ LimitNext("p1")
    \/ Tick

SpecApiSeq == Init /\ [][NextApiSeq]_vars

\* the requests of a client that is not signed in
AnonymousRequests == {r \in ApiRequests : r.cookie = NoCookie}

\* one anonymous client, one request at a time, and idle windows between them
NextLimit ==
    \/ \E r \in AnonymousRequests :
           InFlight = {} /\ LimitEnterUpTo("p1", r, MaxCalls + 1)
    \/ ZRemRangeByScore("p1")
    \/ ZCard("p1")
    \/ ZAdd("p1")
    \/ Expire("p1")
    \/ ExecError("p1")
    \/ LimitNext("p1")
    \/ Tick
    \/ IdleWindow

SpecLimit == Init /\ [][NextLimit]_vars

\* the callers of the session store: logins, logouts and lookups
NextSession ==
    \/ \E t \in Tokens, u \in Users : SessionSet(t, u)
    \/ \E t \in Tokens : SessionDelete(t)
    \/ \E p \in Procs, t \in Tokens \cup {StaleToken} : CallBegin(p, "Get", t)
    \/ \E p \in Procs : SessionGetGET(p)
    \/ \E p \in Procs : SessionGetError(p)
    \/ \E p \in Procs : SessionGetEXPIRE(p)
    \/ Tick

SpecSession == InitShortTTL /\ [][NextSession]_vars

\* requests to the three middlewares, a login, and the user's row being deleted
NextAuth ==
    \/ \E p \in Procs, op \in Middlewares, c \in Tokens \cup {StaleToken, NoCookie} :
           CallBegin(p, op, c)
    \/ \E p \in Procs : SessionGetGET(p)
    \/ \E p \in Procs : SessionGetError(p)
    \/ \E p \in Procs : SessionGetEXPIRE(p)
    \/ \E p \in Procs : MiddlewareUserGet(p)
    \/ \E p \in Procs : MiddlewareUserGetError(p)
    \/ \E p \in Procs : RequireAuthClear(p)
    \/ \E t \in Tokens, u \in User : SessionSet(t, u.id)
    \/ \E u \in User : UserDelete(u.id)
    \/ Tick

SpecAuth == InitShortTTL /\ [][NextAuth]_vars

\* logins through both providers, and users being deleted
NextUser ==
    \/ \E p \in Procs, id \in ProviderIDs, provider \in Providers :
           FindOrCreateBegin(p, id, provider)
    \/ \E p \in Procs : FindByProviderID(p)
    \/ \E p \in Procs : FindByProviderIDError(p)
    \/ \E p \in Procs : UserCreate(p)
    \/ \E u \in User : UserDelete(u.id)

SpecUser == InitProduction /\ [][NextUser]_vars


-----------------------------------------------------------------------------
(* Properties of the rate limiter and the routes *)

\* the answered requests charged to key, in the order of their answers
ChargedTo(key) == SelectSeq(hist, LAMBDA h : h.key = key)

\* the request was let through by the limiter
LetThrough(h) == h.status \notin {429, 500}

\* C1: of the calls checkRateLimit gets one after the other for one
\* identifier, starting with no entries and all inside one window, the first
\* maxRequests are allowed and call maxRequests+1 is not, also when several
\* calls fall in the same clock second.
C1_FirstMaxAllowedThenRejected ==
    \A key \in Keys :
        LET calls == ChargedTo(key)
        IN  (/\ calls # <<>>
             /\ \A i \in 1..Len(calls) : calls[i].status # 500
             /\ calls[Len(calls)].now - calls[1].now < window)
            => \A i \in 1..Len(calls) :
                   i <= maxRequests + 1 => (LetThrough(calls[i]) <=> i <= maxRequests)

\* C5: a request that carries the cookie of a valid session, and so reaches
\* its handler as that user, was charged to the counter ratelimit:user:<id>
\* of that user.
C5_AuthenticatedChargedToUser ==
    \A i \in 1..Len(hist) :
        (hist[i].key # NoKey /\ hist[i].userID # NoUser)
        => hist[i].key = RateLimitKey("user:" \o hist[i].userID)

\* C6: calls of checkRateLimit for one identifier that run at the same time
\* are counted one after the other: of the calls inside one window, with
\* timestamps that all differ, at most maxRequests are allowed.
C6_ConcurrentCallsCounted ==
    \A key \in Keys : \A S \in SUBSET (1..Len(hist)) :
        (/\ \A i \in S : hist[i].key = key /\ LetThrough(hist[i])
         /\ \A i, j \in S : i # j => hist[i].now # hist[j].now
         /\ \A i, j \in S : hist[i].now - hist[j].now < window)
        => Cardinality(S) <= maxRequests

RecordedAfter(key, t) ==
    {hist[i].now : i \in {j \in 1..Len(hist) : hist[j].key = key /\ hist[j].now > t}}

\* C19: in production, of calls one after the other, a call at time now counts
\* no timestamp of now - window or earlier, and a call that comes a full window
\* or more after every earlier call of its identifier is not rejected.
C19_WindowSlides ==
    [][\A p \in Procs :
          /\ (req[p].pc = "ZCard" /\ req'[p].pc = "ZAdd")
             => req'[p].count
                  <= Cardinality(RecordedAfter(req[p].key, req[p].now - window))
          /\ (/\ req[p].pc = "Expire"
              /\ req'[p].pc = "idle"
              /\ RecordedAfter(req[p].key, req[p].now - window) = {})
             => hist'[Len(hist')].status # 429]_vars

\* calls at different seconds used up the limit, the call after them was
\* rejected, and the call a full window later counted nothing and was let
\* through
C19_Witness ==
    /\ isProduction
    /\ Len(hist) = maxRequests + 2
    /\ \A i \in 1..Len(hist) : hist[i].key = hist[1].key
    /\ \A i \in 1..maxRequests : LetThrough(hist[i])
    /\ \A i, j \in 1..maxRequests :
           i < j => /\ hist[i].now < hist[j].now
                    /\ hist[j].now - hist[i].now < window
    /\ hist[maxRequests + 1].status = 429
    /\ hist[Len(hist)].now >= hist[maxRequests + 1].now + window
    /\ hist[Len(hist)].count = 0
    /\ LetThrough(hist[Len(hist)])

\* the calls charged to key whose pipeline was completed, allowed or
\* rejected, with a timestamp later than t that the store's clock has not
\* left behind by a window
CompletedAfter(key, t) ==
    {j \in 1..Len(hist) : /\ hist[j].key = key
                          /\ hist[j].status # 500
                          /\ hist[j].now > t
                          /\ clock < hist[j].now + window}

\* C25: in production, of calls one after the other, every completed call,
\* allowed or rejected, has recorded its timestamp: the next call within the
\* window finds it in the set and counts it.
C25_RejectedCallsRecorded ==
    [][\A p \in Procs :
          (req[p].pc = "ZCard" /\ req'[p].pc = "ZAdd")
          => LET recent == CompletedAfter(req[p].key, req[p].now - window)
             IN  /\ \A j \in recent : hist[j].now \in zset[req[p].key]
                 /\ req'[p].count >= Cardinality(recent)]_vars


-----------------------------------------------------------------------------
(* Properties of the session store *)

\* process p of SessionStore.Get gets the store's answer to its GET
GetAnswered(p) == call[p].pc = "GET" /\ call'[p].pc # "GET"

\* the answer was a value, nothing, or none at all
GetFound(p) == call'[p].pc = "EXPIRE"

GetNotFound(p) == call'[p].pc = "idle" /\ answer'.err = "session not found"

GetUnanswered(p) == call'[p].pc = "idle" /\ answer'.err = "failed to get session"

\* what the callers know of the token process p asks for
Known(p) == IF call[p].cookie \in Tokens THEN seen[call[p].cookie] ELSE Nil

\* C11: a Get finds the user ID of the last Set on its token and nothing for a
\* token never Set or deleted; with no Get having succeeded since that Set, it
\* finds the user ID before the TTL has elapsed and fails with "session not
\* found" once it has.
C11_SetThenGet ==
    [][\A p \in Procs :
        (call[p].op = "Get" /\ GetAnswered(p))
        => /\ GetFound(p) => (Known(p) # Nil /\ call'[p].userID = Known(p).userID)
           /\ Known(p) = Nil => GetNotFound(p) \/ GetUnanswered(p)
           /\ (Known(p) # Nil /\ ~Known(p).read)
              => IF clock < Known(p).lastOk + ttl
                 THEN GetFound(p) \/ GetUnanswered(p)
                 ELSE GetNotFound(p) \/ GetUnanswered(p)]_vars

C11_Witness ==
    /\ answer.op = "Get"
    /\ answer.cookie = "t1"
    /\ answer.err = "session not found"
    /\ seen["t1"] # Nil
    /\ seen["t1"].userID = "u2"
    /\ ~seen["t1"].read

\* C12: a Get that returns a user ID leaves the key with the full TTL, so a
\* Get less than the TTL after the last call that succeeded on its token finds
\* the user ID; a Get that fails changes no expiry time.
C12_SlidingExpiration ==
    [][\A p \in Procs :
        /\ (call[p].op = "Get" /\ GetAnswered(p) /\ ~GetUnanswered(p))
           => ((Known(p) # Nil /\ clock < Known(p).lastOk + ttl) => GetFound(p))
        /\ (call[p].op = "Get" /\ call[p].pc = "EXPIRE" /\ call'[p].pc = "idle"
                /\ seen'[call[p].cookie] # Nil)
           => /\ call[p].cookie \in DOMAIN session'
              /\ session'[call[p].cookie].expireAt = Deadline(clock + ttl)
        /\ (call[p].op = "Get" /\ GetAnswered(p) /\ ~GetFound(p))
           => session' = session]_vars

\* C26: Delete leaves the token without a mapping whether it had one or not,
\* and until the token is Set again it stays so: the EXPIRE of a Get that
\* read the mapping before the Delete changes nothing, and the GET of every
\* later Get finds nothing.
C26_DeleteStays ==
    [][/\ \A t \in Tokens :
             /\ SessionDelete(t) => (t \notin DOMAIN session' /\ answer' = answer)
             /\ seen'[t] = Nil => t \notin DOMAIN session'
       /\ \A p \in Procs :
             /\ (call[p].pc = "EXPIRE" /\ call'[p].pc # "EXPIRE" /\ Known(p) = Nil)
                => session' = session
             /\ (call[p].op = "Get" /\ GetAnswered(p) /\ Known(p) = Nil)
                => (GetNotFound(p) \/ GetUnanswered(p))]_vars

\* a Get has read the mapping, the token was deleted before the Get's EXPIRE,
\* and a later Get of the token has failed
C26_Witness ==
    /\ call["p1"].op = "Get"
    /\ call["p1"].pc = "EXPIRE"
    /\ call["p1"].cookie = "t1"
    /\ seen["t1"] = Nil
    /\ answer.op = "Get"
    /\ answer.cookie = "t1"
    /\ answer.err = "session not found"


-----------------------------------------------------------------------------
(* Properties of the auth middleware *)

\* a middleware writes its answer in this step
Answered(p) ==
    \/ call[p].pc # "idle" /\ call'[p].pc = "idle"
    \/ call[p].pc = "idle" /\ call' = call /\ answer' # answer

\* process p answers after its cookie was there, its session lookup returned a
\* user ID, and the relational store answered its user lookup with a row
LookupsSucceeded(p) ==
    /\ call[p].pc = "UserGet"
    /\ call[p].cookie # NoCookie
    /\ \E u \in User : u.id = call[p].userID
    /\ answer'.failed # "user lookup failed"

\* the status codes of redirects that are not permanent
TemporaryRedirects == {302, 303, 307}

\* C13: when the cookie is missing, the session lookup fails or the user lookup
\* fails, RequireAuth does not run the handler and answers with a redirect to
\* /login that is not permanent; it runs the handler only when all three
\* succeeded.
C13_RequireAuthRedirects ==
    [][\A p \in Procs :
        (Answered(p) /\ answer'.op = "RequireAuth")
        => /\ answer'.handler = 1
              <=> /\ call[p].pc = "UserGet"
                  /\ call[p].cookie # NoCookie
                  /\ \E u \in User : u.id = call[p].userID
           /\ answer'.handler = 0
              => /\ answer'.status \in TemporaryRedirects
                 /\ answer'.location = "/login"
                 /\ answer'.failed \in {"cookie", "session", "user not found",
                                        "user lookup failed"}]_vars

C13_Witness ==
    /\ answer.op = "RequireAuth"
    /\ answer.failed = "session"
    /\ answer.cookie = "t1"
    /\ answer.status = 303
    /\ answer.handler = 0


C15_RequireAuthAPIUnauthorized ==
    [][\A p \in Procs :
        /\ (Answered(p) /\ answer'.op = "RequireAuthAPI")
           => /\ answer'.handler = 1
                 <=> LookupsSucceeded(p)
              /\ answer'.handler = 0
                 => /\ answer'.status = 401
                    /\ answer'.location = ""
                    /\ answer'.setCookie = ""
        /\ (call[p].op = "RequireAuthAPI" /\ call'[p] # call[p])
           => DOMAIN session' = DOMAIN session]_vars

C15_Witness ==
    /\ answer.op = "RequireAuthAPI"
    /\ answer.failed = "user not found"
    /\ answer.status = 401
    /\ answer.cookie \in DOMAIN session

\* C16: in each of the three middlewares the handler finds an identity in its
\* context exactly when the cookie was there, the session lookup returned a
\* user ID and the user lookup found a row; the user ID is the one stored
\* under the token and the user is the row of that ID.  OptionalAuth runs the
\* handler once, without identity, when a check fails.
C16_IdentityAttached ==
    [][\A p \in Procs :
        /\ (Answered(p) /\ answer'.op \in Middlewares)
           => /\ answer'.ctxUserID # NoUser
                 <=> LookupsSucceeded(p)
              /\ answer'.ctxUserID # NoUser
                 => /\ answer'.handler = 1
                    /\ answer'.ctxUserID = call[p].userID
                    /\ answer'.ctxUser # Nil
                    /\ answer'.ctxUser[1] \in User
                    /\ answer'.ctxUser[1].id = answer'.ctxUserID
              /\ answer'.ctxUserID = NoUser => answer'.ctxUser = Nil
              /\ (answer'.op = "OptionalAuth" /\ answer'.ctxUserID = NoUser)
                 => answer'.handler = 1
              /\ answer'.handler \in {0, 1}
        /\ (call[p].op \in Middlewares /\ GetAnswered(p) /\ GetFound(p))
           => /\ call[p].cookie \in DOMAIN session
              /\ call'[p].userID = session[call[p].cookie].userID]_vars

C16_Witness ==
    /\ answer.op = "OptionalAuth"
    /\ answer.failed = "user not found"
    /\ answer.handler = 1
    /\ answer.ctxUserID = NoUser
    /\ answer.cookie \in DOMAIN session


-----------------------------------------------------------------------------
(* Properties of the user service *)

\* C20: no two users share a (providerId, provider) pair, and the user
\* FindOrCreate returns has the providerID and the provider it was called with.
C20_ResolvesByPair ==
    /\ \A u, v \in User :
           (u.providerId = v.providerId /\ u.provider = v.provider) => u = v
    /\ (answer.op = "FindOrCreate" /\ answer.ctxUser # Nil)
       => /\ answer.ctxUser[1].providerId = answer.in.providerID
          /\ answer.ctxUser[1].provider = answer.in.provider

\* C29: RequireAuth deletes a session mapping only if the user it maps to does
\* not exist; when the user lookup fails while the user exists, the mapping is
\* as it was after the request.
C29_DeletesOnlyForMissingUser ==
    [][\A p \in Procs :
          (RequireAuthClear(p) /\ UserGet(call[p].userID)) => session' = session]_vars

\* C28: no two users have one providerId, and a FindOrCreate that found no user
\* and goes on to Create with a valid provider returns a user with its
\* providerID, also when another login with that providerID has created the
\* user meanwhile.
C28_ConcurrentFirstLogins ==
    [][/\ \A u, v \in User' : u.providerId = v.providerId => u = v
       /\ \A p \in Procs :
             (UserCreate(p) /\ IsValid(call[p].in.provider)
                            /\ Users \ {u.id : u \in User} # {})
                => /\ answer'.err = ""
                   /\ answer'.ctxUser # Nil
                   /\ answer'.ctxUser[1] \in User'
                   /\ answer'.ctxUser[1].providerId = call[p].in.providerID]_vars

-----------------------------------------------------------------------------
(* Properties of concurrent updates *)

\* both clients have a 200 for the same item
BothUpdated(p, q) ==
    /\ p # q
    /\ call[p].op = "Update" /\ call[p].pc = "done" /\ call[p].in.status = 200
    /\ call[q].op = "Update" /\ call[q].pc = "done" /\ call[q].in.status = 200
    /\ call[p].in.id = call[q].in.id

\* C27: two Updates of one item in flight at once are applied one after the
\* other, each whole: the later one returns the row as it is afterwards, a
\* field only one of them supplies has that value (score rounded to one
\* decimal) whichever came first, and a field both supply has the value of
\* one of them
C27_ConcurrentUpdates ==
    \A p, q \in Procs :
        BothUpdated(p, q) =>
            \A r \in Movie :
                r.id = call[p].in.id =>
                    LET bp == call[p].in.body
                        bq == call[q].in.body
                    IN  /\ r.userId = call[p].userID
                        /\ r.userId = call[q].userID
                        /\ \E x \in {p, q} : call[x].in.rows[1] = r
                        /\ (bp.score # Nil /\ bq.score = Nil)
                           => r.score = Numeric31(bp.score[1])
                        /\ (bp.watched # Nil /\ bq.watched = Nil)
                           => r.watched = bp.watched[1]
                        /\ (bp.score # Nil /\ bq.score # Nil)
                           => r.score \in {Numeric31(bp.score[1]), Numeric31(bq.score[1])}
                        /\ (bp.watched # Nil /\ bq.watched # Nil)
                           => r.watched \in {bp.watched[1], bq.watched[1]}

\* both requests were in flight together; the one setting the score was
\* applied first, the one setting the flag second, and the row has both
C27_Witness ==
    /\ BothUpdated("p1", "p2")
    /\ call["p1"].in.body = [valid |-> TRUE, score |-> Some(40), watched |-> Nil]
    /\ call["p2"].in.body = [valid |-> TRUE, score |-> Nil, watched |-> Some(TRUE)]
    /\ call["p1"].in.rows[1].watched = FALSE
    /\ call["p2"].in.rows[1].score = 40
    /\ \E r \in Movie : r.id = call["p1"].in.id /\ r.score = 40 /\ r.watched

====
